---- MODULE Spec2Model ----
(***************************************************************************)
(* Model of the ai_pos analytics engine (src/src/analysis.py and its       *)
(* callers).                                                                *)
(*                                                                          *)
(* Conventions.                                                             *)
(*  - Money is counted in whole cents (the CSV exports carry two decimals, *)
(*    see generate_sample_data.py), so round(x, 2) is exact on every       *)
(*    amount the model holds and the float arithmetic of the code is the   *)
(*    integer arithmetic below.                                            *)
(*  - Python's None is the record NoTable; a float NaN is carried by the   *)
(*    flag "matched" of an enriched row (matched = FALSE: cogs,             *)
(*    unit_margin and gross_profit are NaN).                                *)
(*  - A DataFrame is a record [upload, columns, rows]: "upload" names the  *)
(*    upload the table came from, "columns" its column names, "rows" its   *)
(*    rows.  product_name and category are functions of product_id in the  *)
(*    data model and are left out of the rows.                              *)
(*  - A per-day figure x / days is the rational [num |-> x, den |-> days]. *)
(***************************************************************************)
EXTENDS Integers, Sequences, FiniteSets, TLC

VARIABLES
    app,          \* the program that runs: "app", "flask", "minimal" or "pilot"
    now,          \* datetime.now(), in hours since the process started
    cleanup,      \* the session_cleanup_worker thread: its position in
                  \* cleanup_old_sessions, the call's locals and its last result
    ai_available, \* analysis.ai_assistant.is_available(): the process has an API key
    current,      \* analysis._current_transactions (.tx), _current_refunds (.rf),
                  \* _current_payouts (.po), _current_products (.pm)
    session_data, \* session_analysis._session_data
    uploads,      \* number of upload requests so far
    up_pc,        \* position of the upload handler inside set_data
    up_dfs,       \* the upload handler's dfs
    up_sid,       \* the upload handler's session id (pilot)
    up_result,    \* what the last upload handler reported
    an_read,      \* what the last analysis call read and how it ended
    rp_pc,       \* position of the reorder_plan call: "idle", "loop", "done"
    budget,      \* reorder_plan: argument budget
    sku_rank,    \* reorder_plan: local sku_rank
    idx,         \* reorder_plan: position of the for loop in sku_rank
    remaining,   \* reorder_plan: local remaining
    plan,        \* reorder_plan: local plan
    calls,       \* number of reorder_plan calls that returned
    returned,    \* what the returned calls gave back, in call order
    cash_out,    \* what the last call of cash_eaters, free_up_cash,
                 \* executive_snapshot or analyze_executive_summary returned
    sess_read,   \* what the last SessionAnalyzer call read and how it ended
    vs_call      \* the last validate_schema_or_raise call: arguments and result

upload_vars == <<session_data, uploads, up_pc, up_dfs, up_sid, up_result>>
clock_vars == <<now, cleanup>>
life_vars == <<app, clock_vars, ai_available, current, upload_vars, an_read>>
plan_vars == <<rp_pc, budget, sku_rank, idx, remaining, plan, calls, returned>>

call_vars == <<cash_out, sess_read, vs_call>>

vars == <<life_vars, plan_vars, call_vars>>

-----------------------------------------------------------------------------
(* Bounds of the model *)

MaxLines == 2       \* rows of a transactions table
MaxBudget == 6      \* largest budget of a reorder_plan call, in cents
MaxCalls == 2       \* reorder_plan calls in a row on one dataset
MaxUploads == 2     \* upload requests

ProductIds == {1, 2}
Quantities == {0, 1, 2}
UnitPrices == {3}
Discounts == {0, 1}
Days == {1, 2}
CogsValues == {0, 1, 2}
Budgets == (0 - 1)..MaxBudget
SessionIds == {"s1", "s2"}
Kinds == <<"tx", "rf", "po", "pm">>
KindSet == {"tx", "rf", "po", "pm"}
Apps == {"app", "flask", "minimal", "pilot"}

-----------------------------------------------------------------------------
(* Small helpers *)

Max(a, b) == IF a >= b THEN a ELSE b
Min(a, b) == IF a <= b THEN a ELSE b

\* Series.sum() of one column of a sequence of rows
RECURSIVE SumQuantity(_)
SumQuantity(s) == IF s = <<>> THEN 0 ELSE Head(s).quantity + SumQuantity(Tail(s))

RECURSIVE SumGrossProfit(_)
SumGrossProfit(s) ==
    IF s = <<>> THEN 0 ELSE Head(s).gross_profit + SumGrossProfit(Tail(s))

SetMax(S) == CHOOSE x \in S : \A y \in S : y <= x
SetMin(S) == CHOOSE x \in S : \A y \in S : x <= y

-----------------------------------------------------------------------------
(* utils.py: schemas and validation *)

DEFAULT_SCHEMAS ==
    [tx |-> <<"date", "transaction_id", "product_id", "product_name", "category",
              "quantity", "unit_price", "gross_sales", "discount", "net_sales",
              "tax", "line_total", "payment_type", "tip_amount">>,
     rf |-> <<"original_transaction_id", "refund_date", "refund_amount">>,
     po |-> <<"covering_sales_date", "gross_card_volume", "processor_fees",
              "net_payout_amount", "payout_date">>,
     pm |-> <<"product_id", "product_name", "category", "cogs">>]

SeqToSet(s) == {s[i] : i \in DOMAIN s}

-----------------------------------------------------------------------------
(* analysis.py: the current dataset *)

NoTable == [none |-> TRUE]

\* no call yet
NoCashOut == [op |-> "none"]
NoSessRead == [op |-> "none"]

\* the cleanup thread is between two cleanup_old_sessions calls
NoCleanup == [pc |-> "idle", called_at |-> 0, cutoff |-> 0, cleaned |-> 0]
NoCall == [kind |-> "none"]

\* A transactions row: the columns the analyses read.
Lines ==
    [product_id : ProductIds, quantity : Quantities, unit_price : UnitPrices,
     discount : Discounts, day : Days]

\* The rows of a transactions table.  No analysis reads the order of the rows
\* (every groupby orders its groups by key), so tables are listed in one row
\* order only.
LineCode(r) ==
    (((r.product_id * 4 + r.quantity) * 4 + r.unit_price) * 4 + r.discount) * 4 + r.day

TxRowsets ==
    UNION {{s \in [1..n -> Lines] :
               \A i \in 1..(n - 1) : LineCode(s[i]) <= LineCode(s[i + 1])} :
           n \in 1..MaxLines}

\* A product master: product_id -> cogs, product_id unique.
PmRowsets == UNION {[D -> CogsValues] : D \in SUBSET ProductIds}

Table(kind, up, rows) ==
    [upload |-> up, columns |-> SeqToSet(DEFAULT_SCHEMAS[kind]), rows |-> rows]

\* get_current_data: raises ValueError when _current_transactions is None.
get_current_data_raises == current.tx = NoTable

\* get_processed_data, lines 156-158: left join on product_id, then the margin
\* columns.  A row with no catalog match has NaN cogs (matched = FALSE).
EnrichRow(r, products) ==
    LET m == r.product_id \in DOMAIN products.rows
        c == IF m THEN products.rows[r.product_id] ELSE 0
        um == r.unit_price - c
    IN  [product_id |-> r.product_id, quantity |-> r.quantity,
         unit_price |-> r.unit_price, discount |-> r.discount, day |-> r.day,
         matched |-> m, cogs |-> c,
         unit_margin |-> IF m THEN um ELSE 0,
         gross_profit |-> IF m THEN r.quantity * um - r.discount ELSE 0]

\* Mutant: the merge with how="inner".
get_processed_data_inner(transactions, products) ==
    LET keep == SelectSeq(transactions.rows,
                          LAMBDA r : r.product_id \in DOMAIN products.rows)
    IN  [i \in DOMAIN keep |-> EnrichRow(keep[i], products)]

get_processed_data(transactions, products) ==
    [i \in DOMAIN transactions.rows |-> EnrichRow(transactions.rows[i], products)]

-----------------------------------------------------------------------------
(* utils.py: validate_schema_or_raise and load_csv_from_uploads *)

\* Mutant: reports the first absent column only.
MissingColumnsFirstOnly(df, required_columns) ==
    LET all == SelectSeq(required_columns, LAMBDA c : c \notin df.columns)
    IN  IF all = <<>> THEN <<>> ELSE <<Head(all)>>

\* line 42: the required columns the table lacks, in required-column order
MissingColumns(df, required_columns) ==
    SelectSeq(required_columns, LAMBDA c : c \notin df.columns)

\* lines 41-44: raises ValueError(kind, missing) when a column is missing
validate_schema_or_raise(kind, df, required_columns) ==
    LET missing == MissingColumns(df, required_columns)
    IN  IF missing # <<>>
        THEN [raised |-> TRUE, kind |-> kind, missing |-> missing]
        ELSE [raised |-> FALSE, kind |-> kind, missing |-> <<>>]

\* The rows of the files of an upload request (one sample per kind).
SampleRows(kind) ==
    CASE kind = "tx" -> <<[product_id |-> 1, quantity |-> 1, unit_price |-> 3,
                           discount |-> 0, day |-> 1]>>
      [] kind = "pm" -> (1 :> 1)
      [] OTHER -> <<>>

\* A file offered to an upload handler: not provided, a CSV with every
\* required column, or (transactions and products) a CSV that lacks its last
\* required column.
FileShapes(kind) ==
    IF kind \in {"tx", "pm"} THEN {"absent", "good", "bad"} ELSE {"absent", "good"}

ShapeChoices == {f \in [KindSet -> {"absent", "good", "bad"}] :
                    \A k \in KindSet : f[k] \in FileShapes(k)}

UploadedFile(kind, n, shape) ==
    LET req == DEFAULT_SCHEMAS[kind]
        t == Table(kind, n, SampleRows(kind))
    IN  CASE shape = "absent" -> NoTable
          [] shape = "good" -> t
          [] OTHER -> [t EXCEPT !.columns = @ \ {req[Len(req)]}]

NoFiles == [k \in KindSet |-> NoTable]

\* lines 33-39: dfs holds a table for every file provided; line 38 reads the
\* unbound name pmu (NameError) when the products file object has a .name
load_csv_raises(dfs, pm_has_name) == dfs.pm # NoTable /\ pm_has_name

Provided(dfs) == {k \in KindSet : dfs[k] # NoTable}

SchemaFails(dfs) ==
    \E k \in Provided(dfs) :
        validate_schema_or_raise(k, dfs[k], DEFAULT_SCHEMAS[k]).raised

-----------------------------------------------------------------------------
(* The upload handlers: what each does with dfs before it calls set_data *)

\* src/app.py _apply and _apply_uploaded_data_to_runtime
AppVerdict(dfs, pm_has_name) ==
    IF load_csv_raises(dfs, pm_has_name) THEN "error"
    ELSE IF Provided(dfs) = {} THEN "no_files"
    ELSE IF Provided(dfs) # KindSet THEN "missing_files"
    ELSE IF SchemaFails(dfs) THEN "error"
    ELSE "ok"

\* flask_app.py upload_files (the files are passed as paths, which have no .name)
FlaskVerdict(dfs) ==
    IF Provided(dfs) = {} THEN "no_files"
    ELSE IF Provided(dfs) # KindSet THEN "missing_files"
    ELSE IF SchemaFails(dfs) THEN "error"
    ELSE "ok"

\* minimal_app.py process_files
MinimalVerdict(dfs, pm_has_name) ==
    IF Provided(dfs) = {} THEN "no_files"
    ELSE IF load_csv_raises(dfs, pm_has_name) THEN "error"
    ELSE IF SchemaFails(dfs) THEN "error"
    ELSE "ok"

\* src/app_pilot.py handle_upload
PilotVerdict(dfs, pm_has_name) ==
    IF Provided(dfs) = {} THEN "no_files"
    ELSE IF load_csv_raises(dfs, pm_has_name) THEN "error"
    ELSE "ok"

UploadVerdict(dfs, pm_has_name) ==
    CASE app = "app" -> AppVerdict(dfs, pm_has_name)
      [] app = "flask" -> FlaskVerdict(dfs)
      [] app = "minimal" -> MinimalVerdict(dfs, pm_has_name)
      [] OTHER -> PilotVerdict(dfs, pm_has_name)

-----------------------------------------------------------------------------
(* session_analysis.py: SessionManager *)

NoSession == [state |-> "never"]
ClearedSession == [state |-> "cleared"]

\* create_session, lines 22-29 (created_at is never read and is left out)
NewSession == [state |-> "live", tx |-> NoTable, rf |-> NoTable,
               po |-> NoTable, pm |-> NoTable, last_accessed |-> now]

\* session_id in _session_data
SessionExists(sid) == session_data[sid].state = "live"

\* create_session: uuid4 gives an id that was never used
CreateSession ==
    /\ app = "pilot"
    /\ \E sid \in SessionIds :
          /\ session_data[sid] = NoSession
          /\ session_data' = [session_data EXCEPT ![sid] = NewSession]
    /\ UNCHANGED <<app, clock_vars, ai_available, current, uploads, up_pc, up_dfs,
                   up_sid, up_result,
                   an_read, plan_vars, call_vars>>

\* clear_session, lines 50-54
ClearSession ==
    /\ app = "pilot"
    /\ \E sid \in SessionIds :
          /\ SessionExists(sid)
          /\ session_data' = [session_data EXCEPT ![sid] = ClearedSession]
    /\ UNCHANGED <<app, clock_vars, ai_available, current, uploads, up_pc, up_dfs,
                   up_sid, up_result,
                   an_read, plan_vars, call_vars>>

-----------------------------------------------------------------------------
(* Upload requests *)

NextKind(k) ==
    CASE k = "tx" -> "rf" [] k = "rf" -> "po" [] k = "po" -> "pm" [] OTHER -> "idle"

\* the session ids a browser page can hold: those create_session returned
HeldSessionIds == {sid \in SessionIds : session_data[sid] # NoSession}

\* The uploads offered to the pilot program: the four files; the transactions
\* file alone; the three other files; the four files with a products file
\* that lacks its cogs column.
PilotShapeChoices ==
    {f \in ShapeChoices :
        \/ \A k \in KindSet : f[k] = "good"
        \/ f.tx = "good" /\ \A k \in KindSet \ {"tx"} : f[k] = "absent"
        \/ f.tx = "absent" /\ \A k \in KindSet \ {"tx"} : f[k] = "good"
        \/ f.pm = "bad" /\ \A k \in KindSet \ {"pm"} : f[k] = "good"}

UploadInputs ==
    {in \in [shapes : ShapeChoices, pm_has_name : BOOLEAN, sid : SessionIds] :
        /\ (app = "pilot") => in.sid \in HeldSessionIds
        /\ (app = "pilot") => in.shapes \in PilotShapeChoices
        /\ (app # "pilot") => in.sid = "s1"
        /\ (app = "flask") => ~in.pm_has_name}

UploadDfs(in) == [k \in KindSet |-> UploadedFile(k, uploads + 1, in.shapes[k])]

\* The handler rejects the request, or fails, before set_data.
UploadRefused ==
    /\ up_pc = "idle"
    /\ uploads < MaxUploads
    /\ \E in \in UploadInputs :
          /\ UploadVerdict(UploadDfs(in), in.pm_has_name) # "ok"
          /\ up_result' = UploadVerdict(UploadDfs(in), in.pm_has_name)
          /\ up_sid' = in.sid
    /\ uploads' = uploads + 1
    /\ UNCHANGED <<app, clock_vars, ai_available, current, session_data, up_pc, up_dfs,
                   an_read, plan_vars, call_vars>>

\* The handler reaches its set_data call with dfs.
UploadAccepted ==
    /\ up_pc = "idle"
    /\ uploads < MaxUploads
    /\ \E in \in UploadInputs :
          /\ UploadVerdict(UploadDfs(in), in.pm_has_name) = "ok"
          /\ up_dfs' = UploadDfs(in)
          /\ up_sid' = in.sid
    /\ up_pc' = "tx"
    /\ up_result' = "running"
    /\ uploads' = uploads + 1
    /\ UNCHANGED <<app, clock_vars, ai_available, current, session_data, an_read,
                   plan_vars, call_vars>>

\* analysis.py set_data, lines 95-106: one "if x is not None" assignment of a
\* global, followed by a print (where the thread can be switched out)
SetDataStep ==
    /\ app # "pilot"
    /\ up_pc \in KindSet
    /\ current' = IF up_dfs[up_pc] # NoTable
                  THEN [current EXCEPT ![up_pc] = up_dfs[up_pc]]
                  ELSE current
    /\ up_pc' = NextKind(up_pc)
    /\ up_result' = IF NextKind(up_pc) = "idle" THEN "ok" ELSE up_result
    /\ up_dfs' = IF NextKind(up_pc) = "idle" THEN NoFiles ELSE up_dfs
    /\ UNCHANGED <<app, clock_vars, ai_available, session_data, uploads, up_sid, an_read,
                   plan_vars, call_vars>>

\* session_analysis.py SessionAnalyzer.set_data, lines 98-105: one
\* set_session_data call (lines 44-47: under the lock, only if the session
\* exists; it stores the table and the time of the access)
SetSessionStep ==
    /\ app = "pilot"
    /\ up_pc \in KindSet
    /\ session_data' = IF up_dfs[up_pc] # NoTable /\ SessionExists(up_sid)
                       THEN [session_data EXCEPT
                               ![up_sid][up_pc] = up_dfs[up_pc],
                               ![up_sid].last_accessed = now]
                       ELSE session_data
    /\ up_pc' = NextKind(up_pc)
    /\ up_result' = IF NextKind(up_pc) = "idle" THEN "ok" ELSE up_result
    /\ up_dfs' = IF NextKind(up_pc) = "idle" THEN NoFiles ELSE up_dfs
    /\ UNCHANGED <<app, clock_vars, ai_available, current, uploads, up_sid, an_read,
                   plan_vars, call_vars>>

\* analysis.py reset_to_uploads, lines 112-115 (the clear buttons of app.py and
\* flask_app.py)
Reset ==
    /\ app \in {"app", "flask"}
    /\ current # NoFiles
    /\ current' = NoFiles
    /\ UNCHANGED <<app, clock_vars, ai_available, upload_vars, an_read, plan_vars,
                   call_vars>>

-----------------------------------------------------------------------------
(* analysis.py: the public analytic operations, as far as the dataset decides
   how they end *)

Ops == {"executive_snapshot", "cash_eaters", "reorder_plan", "free_up_cash"}

\* minimal_app.py run_analysis offers two of them
OpsOf(a) == IF a = "minimal" THEN {"executive_snapshot", "cash_eaters"} ELSE Ops

\* The globals an operation subscripts after get_current_data returned:
\* get_processed_data reads products (line 156); executive_snapshot reads
\* payouts and refunds (lines 578-580), cash_eaters reads them at lines
\* 293-294; reorder_plan and free_up_cash read them only in the
\* executive_snapshot call they end with (lines 429, 478).
Subscripted(op) ==
    IF op \in {"reorder_plan", "free_up_cash"} THEN {"pm"} ELSE {"pm", "po", "rf"}

\* "no_data": the operation returns its error value (ValueError caught);
\* "raised": a TypeError ('NoneType' object is not subscriptable) leaves it;
\* "ok": it returns a result.
AnalysisOutcome(op, data) ==
    IF data.tx = NoTable THEN "no_data"
    ELSE IF \E k \in Subscripted(op) : data[k] = NoTable THEN "raised"
    ELSE "ok"

UploadOf(t) == IF t = NoTable THEN 0 ELSE t.upload

\* the executive_snapshot call that ends an operation has not run
NoSnap == [outcome |-> "none", tx |-> 0, rf |-> 0, po |-> 0, pm |-> 0]

NoRead == [op |-> "none", outcome |-> "none", tx |-> 0, rf |-> 0, po |-> 0,
           pm |-> 0, stage |-> "none", snap |-> NoSnap]

\* An analysis request: get_current_data (line 89) reads the four globals.
\* cash_eaters, reorder_plan and free_up_cash that got their tables go on to
\* their return statement (stage "snapshot"); the outcome is the one so far.
Analyze ==
    /\ app # "pilot"
    /\ an_read.stage # "snapshot"
    /\ \E op \in OpsOf(app) :
          an_read' = [op |-> op, outcome |-> AnalysisOutcome(op, current),
                      tx |-> UploadOf(current.tx), rf |-> UploadOf(current.rf),
                      po |-> UploadOf(current.po), pm |-> UploadOf(current.pm),
                      stage |-> IF /\ op # "executive_snapshot"
                                   /\ AnalysisOutcome(op, current) = "ok"
                                THEN "snapshot" ELSE "done",
                      snap |-> NoSnap]
    /\ UNCHANGED <<app, clock_vars, ai_available, current, upload_vars, plan_vars,
                   call_vars>>

\* executive_snapshot, lines 545-548: it calls get_processed_data itself and
\* so reads the four globals as they are now
SnapshotRead(data) ==
    [outcome |-> AnalysisOutcome("executive_snapshot", data),
     tx |-> UploadOf(data.tx), rf |-> UploadOf(data.rf),
     po |-> UploadOf(data.po), pm |-> UploadOf(data.pm)]

\* The return statement of cash_eaters, reorder_plan and free_up_cash
\* (lines 360, 429, 478): return executive_snapshot(), ... . A no-data
\* snapshot is returned as the first part of the result; a TypeError in
\* executive_snapshot leaves the operation.
AnalyzeSnapshot ==
    /\ app # "pilot"
    /\ an_read.stage = "snapshot"
    /\ an_read' = [an_read EXCEPT
                     !.stage = "done",
                     !.snap = SnapshotRead(current),
                     !.outcome = IF SnapshotRead(current).outcome = "raised"
                                 THEN "raised" ELSE "ok"]
    /\ UNCHANGED <<app, clock_vars, ai_available, current, upload_vars, plan_vars,
                   call_vars>>

-----------------------------------------------------------------------------
(* analysis.py: the AI step that ends cash_eaters, reorder_plan and
   free_up_cash *)

\* ai_assistant.is_available() is false; or the assistant answers; or a
\* statement of the AI step raises (_prepare_business_context, the request)
AiModes == {"unavailable", "answers", "raises"}

\* how the AI step of one call can go: line 303, is_available() decides
\* between the request and the fixed text
AiOutcomes(available) == IF available THEN {"answers", "raises"} ELSE {"unavailable"}

\* Mutant: the AI step without its try/except: an exception leaves the
\* operation, which then returns nothing.
AiStepUncaught(numeric, mode) ==
    IF mode = "raises"
    THEN [op |-> numeric.op, error |-> TRUE, ai_insights |-> "none"]
    ELSE numeric @@ [error |-> FALSE,
                     ai_insights |-> IF mode = "answers" THEN "ai_text"
                                     ELSE "requires_api_key"]

\* lines 303-360 (likewise 406-429 and 455-478): the numeric results are
\* computed before the step and returned after it; the step only makes the
\* text ai_insights, and its try/except turns every exception into a text.
AiStep(numeric, mode) ==
    numeric @@ [error |-> FALSE,
                ai_insights |-> CASE mode = "answers" -> "ai_text"
                                  [] mode = "raises" -> "error_text"
                                  [] OTHER -> "requires_api_key"]

-----------------------------------------------------------------------------
(* analysis.py: reorder_plan *)

\* line 371: days = (max(day) - min(day)).days + 1
DaySpan(tx) ==
    LET ds == {tx[i].day : i \in DOMAIN tx}
    IN  SetMax(ds) - SetMin(ds) + 1

\* lines 372-377: groupby([product_id, product_name, cogs]) drops the groups
\* whose key is NaN and orders the groups by key; qty and gp are group sums.
GroupKeys(tx) == {tx[i].product_id : i \in {j \in DOMAIN tx : tx[j].matched}}

GroupRows(tx, pid) == SelectSeq(tx, LAMBDA r : r.matched /\ r.product_id = pid)

SkuRow(tx, pid) ==
    LET g == GroupRows(tx, pid)
        qty == SumQuantity(g)
        gp == SumGrossProfit(g)
        days == DaySpan(tx)
    IN  [product_id |-> pid, cogs |-> g[1].cogs, qty |-> qty, gp |-> gp,
         qty_per_day |-> [num |-> qty, den |-> days],
         gp_per_day |-> [num |-> gp, den |-> days]]

SkuDaily(tx) == {SkuRow(tx, pid) : pid \in GroupKeys(tx)}

\* comparison of two per-day figures (positive denominators)
RatLess(a, b) == a.num * b.den < b.num * a.den

\* Mutant: the sort keys swapped (qty_per_day first).
SortsBeforeQtyFirst(a, b) ==
    \/ RatLess(b.qty_per_day, a.qty_per_day)
    \/ /\ ~RatLess(a.qty_per_day, b.qty_per_day)
       /\ ~RatLess(b.qty_per_day, a.qty_per_day)
       /\ \/ RatLess(b.gp_per_day, a.gp_per_day)
          \/ /\ ~RatLess(a.gp_per_day, b.gp_per_day)
             /\ ~RatLess(b.gp_per_day, a.gp_per_day)
             /\ a.product_id < b.product_id

\* Mutant: a sort that orders tied rows differently from one call to the next.
SortsBeforeUnstable(a, b) ==
    \/ RatLess(b.gp_per_day, a.gp_per_day)
    \/ /\ ~RatLess(a.gp_per_day, b.gp_per_day)
       /\ ~RatLess(b.gp_per_day, a.gp_per_day)
       /\ \/ RatLess(b.qty_per_day, a.qty_per_day)
          \/ /\ ~RatLess(a.qty_per_day, b.qty_per_day)
             /\ ~RatLess(b.qty_per_day, a.qty_per_day)
             /\ IF calls % 2 = 0 THEN a.product_id < b.product_id
                                 ELSE a.product_id > b.product_id

\* line 378: sort_values(["gp_per_day", "qty_per_day"], ascending=False) is a
\* lexsort: descending by gp_per_day, then descending by qty_per_day, rows
\* that tie on both stay in groupby order (ascending product_id).
SortsBefore(a, b) ==
    \/ RatLess(b.gp_per_day, a.gp_per_day)
    \/ /\ ~RatLess(a.gp_per_day, b.gp_per_day)
       /\ ~RatLess(b.gp_per_day, a.gp_per_day)
       /\ \/ RatLess(b.qty_per_day, a.qty_per_day)
          \/ /\ ~RatLess(a.qty_per_day, b.qty_per_day)
             /\ ~RatLess(b.qty_per_day, a.qty_per_day)
             /\ a.product_id < b.product_id

SkuRank(tx) ==
    LET S == SkuDaily(tx)
        pos(a) == 1 + Cardinality({b \in S : SortsBefore(b, a)})
    IN  [k \in 1..Cardinality(S) |-> CHOOSE a \in S : pos(a) = k]

\* Mutant: cogs = float(row["cogs"]) or 1.0 (a default for a zero cost).
RowCogsOrDefault(row) == IF row.cogs = 0 THEN 1 ELSE row.cogs

\* line 384: cogs = float(row["cogs"])
RowCogs(row) == row.cogs

\* np.ceil(x * 5) for a per-day figure x
CeilTimes5(q) == 0 - ((0 - 5 * q.num) \div q.den)

\* Mutant: the target rounded down instead of up.
TargetUnitsFloor(row) == Max(1, (5 * row.qty_per_day.num) \div row.qty_per_day.den)

\* line 387: target_units = max(1, int(np.ceil(row["qty_per_day"] * 5)))
TargetUnits(row) == Max(1, CeilTimes5(row.qty_per_day))

\* Mutant: the budget cap rounded up instead of down.
MaxUnitsByBudgetCeil(rem, cogs) == (rem + cogs - 1) \div cogs

\* line 388: max_units_by_budget = int(remaining // cogs), cogs > 0
MaxUnitsByBudget(rem, cogs) == rem \div cogs

\* Mutant: one unit per SKU at most.
BuyUnitsSingle(row, rem) ==
    Max(0, Min(1, MaxUnitsByBudget(rem, RowCogs(row))))

\* line 389: buy_units = max(0, min(target_units, max_units_by_budget))
BuyUnits(row, rem) ==
    Max(0, Min(TargetUnits(row), MaxUnitsByBudget(rem, RowCogs(row))))

\* lines 391-398: the plan line (est_gp_uplift_week, a display estimate, is
\* left out)
PlanLine(row, buy) ==
    [product_id |-> row.product_id, unit_cogs |-> RowCogs(row),
     suggested_qty |-> buy, budget_spend |-> buy * RowCogs(row)]

\* line 400: sku_rank["cogs"].min(), over every row of sku_rank
MinCogs(rank) == SetMin({rank[i].cogs : i \in DOMAIN rank})

\* Mutant: the early stop compares with the dearest SKU instead of the cheapest.
StopsEarlyAtMax(rem, rank) == rem < SetMax({rank[i].cogs : i \in DOMAIN rank})

\* line 400: the early stop
StopsEarly(rem, rank) == rem < MinCogs(rank)

\* lines 365-381: the call reads the dataset, ranks the SKUs and starts the loop
ReorderStart ==
    /\ rp_pc = "idle"
    /\ calls < MaxCalls
    /\ ~get_current_data_raises
    /\ sku_rank' = SkuRank(get_processed_data(current.tx, current.pm))
    /\ remaining' = budget
    /\ plan' = <<>>
    /\ idx' = 1
    /\ rp_pc' = "loop"
    /\ UNCHANGED <<life_vars, call_vars, budget, calls, returned>>

\* lines 385-386: a row with cogs <= 0 is skipped (continue)
ReorderSkip ==
    /\ rp_pc = "loop"
    /\ idx <= Len(sku_rank)
    /\ RowCogs(sku_rank[idx]) <= 0
    /\ idx' = idx + 1
    /\ UNCHANGED <<life_vars, call_vars, rp_pc, budget, sku_rank,
                   remaining, plan, calls, returned>>

\* lines 387-401: one pass of the loop body on a row with cogs > 0
ReorderVisit ==
    /\ rp_pc = "loop"
    /\ idx <= Len(sku_rank)
    /\ RowCogs(sku_rank[idx]) > 0
    /\ LET row == sku_rank[idx]
           buy == BuyUnits(row, remaining)
           rem == IF buy > 0 THEN remaining - buy * RowCogs(row) ELSE remaining
       IN  /\ plan' = IF buy > 0 THEN Append(plan, PlanLine(row, buy)) ELSE plan
           /\ remaining' = rem
           /\ \/ /\ StopsEarly(rem, sku_rank)
                 /\ rp_pc' = "done"
                 /\ idx' = idx
              \/ /\ ~StopsEarly(rem, sku_rank)
                 /\ rp_pc' = "loop"
                 /\ idx' = idx + 1
    /\ UNCHANGED <<life_vars, call_vars, budget, sku_rank, calls, returned>>

\* line 383: the for loop runs out of rows
ReorderExhausted ==
    /\ rp_pc = "loop"
    /\ idx > Len(sku_rank)
    /\ rp_pc' = "done"
    /\ UNCHANGED <<life_vars, call_vars, budget, sku_rank, idx,
                   remaining, plan, calls, returned>>

\* lines 403-429: the AI step, then the call returns the plan and the
\* remaining budget
ReorderReturn ==
    /\ rp_pc = "done"
    /\ returned' = Append(returned, [budget |-> budget, plan |-> plan,
                                     remaining |-> remaining])
    /\ \E mode \in AiOutcomes(ai_available) :
          cash_out' = AiStep([op |-> "reorder_plan", budget |-> budget,
                              plan |-> plan, remaining |-> remaining], mode)
    /\ calls' = calls + 1
    /\ rp_pc' = "idle"
    /\ UNCHANGED <<life_vars, sess_read, vs_call, budget, sku_rank, idx,
                   remaining, plan>>

\* A dataset is loaded and reorder_plan is called with one budget.
InitPlan ==
    /\ app = "app"
    /\ ai_available = FALSE
    /\ now = 0
    /\ cleanup = NoCleanup
    /\ session_data = [s \in SessionIds |-> NoSession]
    /\ uploads = 1
    /\ up_pc = "idle"
    /\ up_dfs = NoFiles
    /\ up_sid = "s1"
    /\ up_result = "ok"
    /\ an_read = NoRead
    /\ \E txrows \in TxRowsets, pmrows \in PmRowsets :
          current = [tx |-> Table("tx", 1, txrows), rf |-> Table("rf", 1, <<>>),
                     po |-> Table("po", 1, <<>>), pm |-> Table("pm", 1, pmrows)]
    /\ budget \in Budgets
    /\ rp_pc = "idle"
    /\ sku_rank = <<>>
    /\ idx = 1
    /\ remaining = 0
    /\ plan = <<>>
    /\ calls = 0
    /\ returned = <<>>
    /\ cash_out = NoCashOut
    /\ sess_read = NoSessRead
    /\ vs_call = NoCall

NextPlan ==
    \/ ReorderStart
    \/ ReorderSkip
    \/ ReorderVisit
    \/ ReorderExhausted
    \/ ReorderReturn

SpecPlan == InitPlan /\ [][NextPlan]_vars

-----------------------------------------------------------------------------
(* Properties of reorder_plan, checked under SpecPlan *)

RECURSIVE SumSpend(_)
SumSpend(p) ==
    IF p = <<>> THEN 0
    ELSE Head(p).suggested_qty * Head(p).unit_cogs + SumSpend(Tail(p))

InCall == rp_pc \in {"loop", "done"}

\* position of a product in sku_rank (0: not ranked)
RankPos(pid) ==
    IF \E i \in DOMAIN sku_rank : sku_rank[i].product_id = pid
    THEN CHOOSE i \in DOMAIN sku_rank : sku_rank[i].product_id = pid
    ELSE 0

\* the cogs the catalog gives a product that has a catalog row
CatalogCogs(pid) == current.pm.rows[pid]

\* C1: for every budget > 0, at every step of the greedy loop and on return,
\* remaining >= 0 and the sum of quantity x cogs over the plan lines equals
\* budget - remaining, so the spend never exceeds the budget.
C1_SpendWithinBudget ==
    /\ (budget > 0 /\ InCall) =>
          /\ remaining >= 0
          /\ SumSpend(plan) = budget - remaining
          /\ SumSpend(plan) <= budget
    /\ \A i \in DOMAIN returned :
          returned[i].budget > 0 =>
             /\ returned[i].remaining >= 0
             /\ SumSpend(returned[i].plan) = returned[i].budget - returned[i].remaining

\* C1 witness: a call with a positive budget that bought two SKUs and spent
\* all of the budget.
C1_Witness ==
    /\ rp_pc = "done"
    /\ budget > 0
    /\ Len(plan) = 2
    /\ remaining = 0

\* The pass as the specification states it: every SKU with cogs > 0, in rank
\* order, buys max(0, min(ceil(qty_per_day x 5), floor(remaining / cogs))), a
\* plan line if and only if that is > 0.
RECURSIVE ClaimedPass(_, _, _, _)
ClaimedPass(rank, i, rem, acc) ==
    IF i > Len(rank) THEN [plan |-> acc, remaining |-> rem]
    ELSE LET row == rank[i]
             n == IF row.cogs > 0
                  THEN Max(0, Min(CeilTimes5(row.qty_per_day), rem \div row.cogs))
                  ELSE 0
         IN  IF n > 0
             THEN ClaimedPass(rank, i + 1, rem - n * row.cogs,
                              Append(acc, [product_id |-> row.product_id,
                                           unit_cogs |-> row.cogs,
                                           suggested_qty |-> n,
                                           budget_spend |-> n * row.cogs]))
             ELSE ClaimedPass(rank, i + 1, rem, acc)

ConformingQuantities ==
    \A i \in DOMAIN current.tx.rows : current.tx.rows[i].quantity > 0

ClaimedHigher(a, b) ==
    \/ RatLess(b.gp_per_day, a.gp_per_day)
    \/ /\ a.gp_per_day.num * b.gp_per_day.den = b.gp_per_day.num * a.gp_per_day.den
       /\ RatLess(b.qty_per_day, a.qty_per_day)

\* C7: the loop takes the SKUs in descending order of (gp_per_day,
\* qty_per_day): a higher SKU stands before a lower one in the visiting
\* order, the SKUs decided so far are the first idx - 1 of that order, and
\* the plan lines follow it.
C7_RankedAllocation ==
    InCall =>
       /\ \A i, j \in DOMAIN sku_rank :
             ClaimedHigher(sku_rank[i], sku_rank[j]) => i < j
       /\ \A p \in DOMAIN plan :
             /\ RankPos(plan[p].product_id) \in 1..idx
             /\ \A q \in DOMAIN plan :
                   p < q => RankPos(plan[p].product_id) < RankPos(plan[q].product_id)

\* C7 witness: two SKUs with the same gp_per_day and different qty_per_day
\* were both bought.
C7_Witness ==
    /\ rp_pc = "done"
    /\ Len(plan) = 2
    /\ Len(sku_rank) = 2
    /\ sku_rank[1].gp = sku_rank[2].gp
    /\ sku_rank[1].qty > sku_rank[2].qty

\* C8: a SKU whose cogs is <= 0 is never in the plan, and the loop pass on
\* such a SKU changes neither the remaining budget nor the plan.
C8_NonPositiveCogsSkipped ==
    /\ [](\A p \in DOMAIN plan : CatalogCogs(plan[p].product_id) > 0)
    /\ [][(rp_pc = "loop" /\ idx <= Len(sku_rank) /\ sku_rank[idx].cogs <= 0)
             => (remaining' = remaining /\ plan' = plan)]_vars

\* C8 witness: the most profitable SKU has cogs = 0, the call is over and
\* the plan holds the other SKU.
C8_Witness ==
    /\ rp_pc = "done"
    /\ Len(sku_rank) = 2
    /\ sku_rank[1].cogs = 0
    /\ sku_rank[1].gp > sku_rank[2].gp
    /\ Len(plan) = 1
    /\ remaining > 0

\* The same ranked pass without the early stop of line 400.
RECURSIVE FullPass(_, _, _, _)
FullPass(rank, i, rem, acc) ==
    IF i > Len(rank) THEN [plan |-> acc, remaining |-> rem]
    ELSE LET row == rank[i]
             buy == IF RowCogs(row) <= 0 THEN 0 ELSE BuyUnits(row, rem)
         IN  IF buy > 0
             THEN FullPass(rank, i + 1, rem - buy * RowCogs(row),
                           Append(acc, PlanLine(row, buy)))
             ELSE FullPass(rank, i + 1, rem, acc)

\* C9: when the loop is left, every SKU not yet visited that has cogs > 0
\* costs more than the remaining budget, and the plan and the remaining
\* budget are those of the same pass run to the end without the early stop.
C9_EarlyStopIsSafe ==
    rp_pc = "done" =>
       /\ \A j \in DOMAIN sku_rank :
             (j > idx /\ sku_rank[j].cogs > 0) => sku_rank[j].cogs > remaining
       /\ [plan |-> plan, remaining |-> remaining]
             = FullPass(sku_rank, 1, budget, <<>>)

\* C9 witness: the loop stopped early, after a purchase, before a SKU with
\* cogs > 0 it had not visited.
C9_Witness ==
    /\ rp_pc = "done"
    /\ idx < Len(sku_rank)
    /\ sku_rank[idx + 1].cogs > 0
    /\ Len(plan) = 1

-----------------------------------------------------------------------------
(* Properties of the dataset's life, checked under Spec and SpecPilot *)

\* C2: get_processed_data never joins the transactions table of one upload
\* with the products table of another upload.
C2_NoTornRead ==
    (an_read.tx # 0 /\ an_read.pm # 0) => an_read.tx = an_read.pm

\* C3: when no upload is in progress, the tables of the current dataset all
\* come from the same upload.
C3_OneUploadAtRest ==
    up_pc = "idle" =>
       \A k1, k2 \in KindSet :
          (current[k1] # NoTable /\ current[k2] # NoTable)
             => current[k1].upload = current[k2].upload

\* C4: an analytic operation that runs while at least one of the four tables
\* is not set returns its no-data error value and does not raise.
C4_NoDataReported ==
    (an_read.op # "none" /\ 0 \in {an_read.tx, an_read.rf, an_read.po, an_read.pm})
       => an_read.outcome = "no_data"

\* C5: a table that lacks a required column of its role is never part of a
\* current dataset, process-wide or of a session.
C5_OnlyValidatedTables ==
    /\ \A k \in KindSet :
          current[k] # NoTable =>
             ~validate_schema_or_raise(k, current[k], DEFAULT_SCHEMAS[k]).raised
    /\ \A sid \in SessionIds :
          SessionExists(sid) =>
             \A k \in KindSet :
                session_data[sid][k] # NoTable =>
                   ~validate_schema_or_raise(k, session_data[sid][k],
                                             DEFAULT_SCHEMAS[k]).raised

-----------------------------------------------------------------------------
(* The process-wide dataset: one of the programs built on analysis.py runs,
   nothing is loaded yet, and upload, reset and analysis requests are served
   by concurrent threads. *)

Init ==
    /\ app \in Apps \ {"pilot"}
    /\ ai_available = FALSE
    /\ now = 0
    /\ cleanup = NoCleanup
    /\ current = NoFiles
    /\ session_data = [s \in SessionIds |-> NoSession]
    /\ uploads = 0
    /\ up_pc = "idle"
    /\ up_dfs = NoFiles
    /\ up_sid = "s1"
    /\ up_result = "none"
    /\ an_read = NoRead
    /\ rp_pc = "idle"
    /\ budget = 0
    /\ sku_rank = <<>>
    /\ idx = 1
    /\ remaining = 0
    /\ plan = <<>>
    /\ calls = 0
    /\ returned = <<>>
    /\ cash_out = NoCashOut
    /\ sess_read = NoSessRead
    /\ vs_call = NoCall

Next ==
    \/ UploadRefused
    \/ UploadAccepted
    \/ SetDataStep
    \/ Reset
    \/ Analyze
    \/ AnalyzeSnapshot

Spec == Init /\ [][Next]_vars

-----------------------------------------------------------------------------
(* session_analysis.py: SessionAnalyzer *)

SessionOps == {"executive_snapshot", "cash_eaters", "reorder_plan"}
SessionBudgets == {0, 2}

\* get_session_data, lines 33-39: under the lock, a copy of the session's
\* entry, or None when the session id is not in _session_data
\* Mutant: one store for every session.
get_session_data_shared(sid) ==
    IF SessionExists(sid) /\ SessionExists("s1") THEN session_data["s1"]
    ELSE NoSession

get_session_data(sid) ==
    IF SessionExists(sid) THEN session_data[sid] ELSE NoSession

\* get_session_data, line 37: the read stores the time of the access
Touched(sid) ==
    IF SessionExists(sid)
    THEN [session_data EXCEPT ![sid].last_accessed = now]
    ELSE session_data

\* Mutant: the error names the first table that is None only.
MissingTablesFirstOnly(data) ==
    LET none == {k \in KindSet : data[k] = NoTable}
    IN  IF none = {} THEN {}
        ELSE {Kinds[SetMin({i \in DOMAIN Kinds : Kinds[i] \in none})]}

\* _get_current_data, lines 87-92: the names of the tables that are None
MissingTables(data) == {k \in KindSet : data[k] = NoTable}

\* the columns get_processed_data subscripts, lines 112-115
ColumnsRead(kind) ==
    CASE kind = "tx" -> {"product_id", "unit_price", "quantity", "discount", "date"}
      [] kind = "pm" -> {"product_id", "cogs"}
      [] OTHER -> {}

\* lines 199-215: the loop of reorder_plan from row i on, with its early stop;
\* the remaining budget it ends with
RECURSIVE GreedyRemaining(_, _, _)
GreedyRemaining(rank, i, rem) ==
    IF i > Len(rank) THEN rem
    ELSE IF RowCogs(rank[i]) <= 0 THEN GreedyRemaining(rank, i + 1, rem)
    ELSE LET buy == BuyUnits(rank[i], rem)
             left == IF buy > 0 THEN rem - buy * RowCogs(rank[i]) ELSE rem
         IN  IF StopsEarly(left, rank) THEN left
             ELSE GreedyRemaining(rank, i + 1, left)

\* line 224: (budget - remaining) / budget * 100, a Python division: it raises
\* ZeroDivisionError when budget is 0
BudgetUtilisation(b, rem) ==
    IF b = 0 THEN [reached |-> TRUE, raised |-> TRUE, num |-> 0, den |-> 0]
    ELSE [reached |-> TRUE, raised |-> FALSE, num |-> (b - rem) * 100, den |-> b]

\* line 224 not reached
NoRatio == [reached |-> FALSE, raised |-> FALSE, num |-> 0, den |-> 1]

\* the budget-utilisation figure of a reorder_plan call that got as far as
\* line 224
SessionUtilisation(op, b, data) ==
    IF /\ op = "reorder_plan"
       /\ data # NoSession
       /\ \A k \in KindSet :
             data[k] # NoTable /\ ColumnsRead(k) \subseteq data[k].columns
    THEN BudgetUtilisation(b, GreedyRemaining(
             SkuRank(get_processed_data(data.tx, data.pm)), 1, b))
    ELSE NoRatio

\* How a SessionAnalyzer operation ends on the bundle it read:
\* "session_not_found" and "missing_data" are the error values of lines
\* 121-129, 150-154 and 181-185 (ValueError caught); "raised": an exception
\* leaves the operation (KeyError for a column the table lacks,
\* ZeroDivisionError at line 224); "ok": it returns a result.
SessionOutcome(op, b, data) ==
    IF data = NoSession THEN "session_not_found"
    ELSE IF MissingTables(data) # {} THEN "missing_data"
    ELSE IF \E k \in KindSet : ~(ColumnsRead(k) \subseteq data[k].columns) THEN "raised"
    ELSE IF SessionUtilisation(op, b, data).raised THEN "raised"
    ELSE "ok"

\* A call of a SessionAnalyzer operation on a session id the page holds.
\* The field during is the upload whose set_data (of four tables, on the same
\* session) is between two of its set_session_data calls when
\* get_session_data runs, 0 when there is none.
SessionAnalyze ==
    /\ app = "pilot"
    /\ \E sid \in HeldSessionIds, op \in SessionOps, b \in SessionBudgets :
          LET data == get_session_data(sid)
              read(k) == IF data = NoSession THEN 0 ELSE UploadOf(data[k])
          IN  /\ session_data' = Touched(sid)
              /\ sess_read' =
                 [op |-> op, sid |-> sid,
                  budget |-> IF op = "reorder_plan" THEN b ELSE 0,
                  outcome |-> SessionOutcome(op, b, data),
                  missing |-> IF data = NoSession THEN {} ELSE MissingTables(data),
                  utilisation |-> SessionUtilisation(op, b, data),
                  during |-> IF /\ up_pc \in KindSet /\ up_sid = sid
                                /\ \A k \in KindSet : up_dfs[k] # NoTable
                             THEN uploads ELSE 0,
                  tx |-> read("tx"), rf |-> read("rf"),
                  po |-> read("po"), pm |-> read("pm")]
    /\ UNCHANGED <<app, clock_vars, ai_available, current, uploads, up_pc,
                   up_dfs, up_sid, up_result, an_read, plan_vars, cash_out,
                   vs_call>>

-----------------------------------------------------------------------------
(* The pilot program (src/app_pilot.py): per-session datasets. *)

InitPilot ==
    /\ app = "pilot"
    /\ ai_available = FALSE
    /\ now = 0
    /\ cleanup = NoCleanup
    /\ current = NoFiles
    /\ session_data = [s \in SessionIds |-> NoSession]
    /\ uploads = 0
    /\ up_pc = "idle"
    /\ up_dfs = NoFiles
    /\ up_sid = "s1"
    /\ up_result = "none"
    /\ an_read = NoRead
    /\ rp_pc = "idle"
    /\ budget = 0
    /\ sku_rank = <<>>
    /\ idx = 1
    /\ remaining = 0
    /\ plan = <<>>
    /\ calls = 0
    /\ returned = <<>>
    /\ cash_out = NoCashOut
    /\ sess_read = NoSessRead
    /\ vs_call = NoCall

NextPilot ==
    \/ CreateSession
    \/ ClearSession
    \/ UploadRefused
    \/ UploadAccepted
    \/ SetSessionStep
    \/ SessionAnalyze

SpecPilot == InitPilot /\ [][NextPilot]_vars

-----------------------------------------------------------------------------
(* session_analysis.py cleanup_old_sessions, called by the
   session_cleanup_worker thread of app_pilot.py (lines 19-32) *)

\* the latest hour of the clock
MaxClock == 3

\* app_pilot.py line 16: SESSION_CLEANUP_HOURS, 24 unless the environment
\* sets it; the model counts a shorter age
CLEANUP_HOURS == 2

\* Mutant: a session as old as the limit is deleted as well.
OldSessionsInclusive(cutoff) ==
    {sid \in SessionIds :
        SessionExists(sid) /\ session_data[sid].last_accessed <= cutoff}

\* lines 61-64: to_delete
OldSessions(cutoff) ==
    {sid \in SessionIds :
        SessionExists(sid) /\ session_data[sid].last_accessed < cutoff}

\* an hour passes
Tick ==
    /\ now < MaxClock
    /\ now' = now + 1
    /\ UNCHANGED <<app, cleanup, ai_available, current, upload_vars, an_read,
                   plan_vars, call_vars>>

\* line 59: the cutoff is computed before the lock is taken
CleanupStart ==
    /\ app = "pilot"
    /\ cleanup.pc = "idle"
    /\ cleanup' = [pc |-> "lock", called_at |-> now,
                   cutoff |-> now - CLEANUP_HOURS, cleaned |-> cleanup.cleaned]
    /\ UNCHANGED <<app, now, ai_available, current, upload_vars, an_read,
                   plan_vars, call_vars>>

\* lines 60-67: under the lock, the sessions last accessed before the cutoff
\* are deleted; the call returns their number
CleanupSweep ==
    /\ app = "pilot"
    /\ cleanup.pc = "lock"
    /\ LET to_delete == OldSessions(cleanup.cutoff)
       IN  /\ session_data' = [sid \in SessionIds |->
                                  IF sid \in to_delete THEN ClearedSession
                                  ELSE session_data[sid]]
           /\ cleanup' = [pc |-> "idle", called_at |-> 0, cutoff |-> 0,
                          cleaned |-> Cardinality(to_delete)]
    /\ UNCHANGED <<app, now, ai_available, current, uploads, up_pc, up_dfs,
                   up_sid, up_result, an_read, plan_vars, call_vars>>

\* The pilot program with its cleanup thread: sessions are created, written
\* by one upload and read by analyses while the hours pass.
InitCleanup ==
    /\ app = "pilot"
    /\ ai_available = FALSE
    /\ now = 0
    /\ cleanup = NoCleanup
    /\ current = NoFiles
    /\ session_data = [s \in SessionIds |-> NoSession]
    /\ uploads = MaxUploads - 1
    /\ up_pc = "idle"
    /\ up_dfs = NoFiles
    /\ up_sid = "s1"
    /\ up_result = "none"
    /\ an_read = NoRead
    /\ rp_pc = "idle"
    /\ budget = 0
    /\ sku_rank = <<>>
    /\ idx = 1
    /\ remaining = 0
    /\ plan = <<>>
    /\ calls = 0
    /\ returned = <<>>
    /\ cash_out = NoCashOut
    /\ sess_read = NoSessRead
    /\ vs_call = NoCall

NextCleanup ==
    \/ CreateSession
    \/ UploadAccepted
    \/ SetSessionStep
    \/ SessionAnalyze
    \/ Tick
    \/ CleanupStart
    \/ CleanupSweep

SpecCleanup == InitCleanup /\ [][NextCleanup]_vars

-----------------------------------------------------------------------------
(* analysis.py: cash_eaters on a loaded dataset *)

MaxSkus == 6        \* products sold in a transactions table of SpecCash

RefundCounts == 0..1
PayoutCounts == 0..1

\* The transactions of SpecCash: one line per product 1..n, each line with
\* (quantity, discount) among three cases; net_sales = gross_sales - discount
\* and gross_sales = quantity x unit_price (generate_sample_data.py, lines
\* 32-34).
CashLineShapes == {<<0, 0>>, <<1, 0>>, <<0, 1>>}

CashLine(pid, shape) ==
    [product_id |-> pid, quantity |-> shape[1], unit_price |-> 3,
     discount |-> shape[2], day |-> 1]

CashRowsets ==
    UNION {{[i \in 1..n |-> CashLine(i, f[i])] : f \in [1..n -> CashLineShapes]} :
           n \in 0..MaxSkus}

\* Two catalogs: every product at cogs 1; or product 1 missing from the
\* catalog, product 2 at a cogs above its price and the others at cogs 1.
CashCatalogs ==
    {[i \in 1..(MaxSkus + 1) |-> 1],
     [i \in 2..(MaxSkus + 1) |-> IF i = 2 THEN 4 ELSE 1]}

RefundRowsets == {[i \in 1..n |-> [refund_amount |-> 1]] : n \in RefundCounts}
PayoutRowsets == {[i \in 1..n |-> [processor_fees |-> 1]] : n \in PayoutCounts}

NetSales(r) == r.quantity * r.unit_price - r.discount

RECURSIVE SumDiscount(_)
SumDiscount(s) == IF s = <<>> THEN 0 ELSE Head(s).discount + SumDiscount(Tail(s))

RECURSIVE SumRefundAmount(_)
SumRefundAmount(s) ==
    IF s = <<>> THEN 0 ELSE Head(s).refund_amount + SumRefundAmount(Tail(s))

RECURSIVE SumProcessorFees(_)
SumProcessorFees(s) ==
    IF s = <<>> THEN 0 ELSE Head(s).processor_fees + SumProcessorFees(Tail(s))

\* lines 291-295: the frame of the three drains, in the order it is built
DrainFrame(tx, refunds, payouts) ==
    <<[category |-> "discounts", amount |-> SumDiscount(tx)],
      [category |-> "refunds", amount |-> SumRefundAmount(refunds.rows)],
      [category |-> "processor_fees", amount |-> SumProcessorFees(payouts.rows)]>>

Permutations3 == {p \in [1..3 -> 1..3] : \A i, j \in 1..3 : i # j => p[i] # p[j]}

\* line 295: sort_values("amount", ascending=False) sorts one column with the
\* default kind "quicksort", which pandas documents as not stable: the rows
\* come out in non-increasing order of amount, rows with equal amounts in an
\* order the numpy build decides.
DrainRankings(frame) ==
    {[i \in 1..3 |-> frame[p[i]]] : p \in
        {q \in Permutations3 :
            \A i \in 1..2 : frame[q[i]].amount >= frame[q[i + 1]].amount}}

RECURSIVE SumNetSales(_)
SumNetSales(s) == IF s = <<>> THEN 0 ELSE NetSales(Head(s)) + SumNetSales(Tail(s))

\* lines 297-298: groupby(["product_id", "product_name"]) has one group per
\* product sold, matched in the catalog or not; revenue and gp are group
\* sums, and the sum of a gross_profit column of NaN is 0 (sum skips NaN).
SkuKeys(tx) == {tx[i].product_id : i \in DOMAIN tx}

\* Mutant: the division without the guard on revenue.
MarginPctUnguarded(revenue, gp) == [num |-> gp, den |-> revenue]

\* line 299: np.where(sku["revenue"] > 0, sku["gp"] / sku["revenue"], 0.0)
MarginPct(revenue, gp) ==
    IF revenue > 0 THEN [num |-> gp, den |-> revenue] ELSE [num |-> 0, den |-> 1]

SkuMarginRow(tx, pid) ==
    LET g == SelectSeq(tx, LAMBDA r : r.product_id = pid)
        revenue == SumNetSales(g)
        gp == SumGrossProfit(g)
    IN  [product_id |-> pid, revenue |-> revenue, gp |-> gp,
         margin_pct |-> MarginPct(revenue, gp)]

SkuMargins(tx) == {SkuMarginRow(tx, pid) : pid \in SkuKeys(tx)}

\* Mutant: the sort keys swapped (revenue first).
LowSortsBeforeRevenueFirst(a, b) ==
    \/ a.revenue < b.revenue
    \/ /\ a.revenue = b.revenue
       /\ \/ RatLess(a.margin_pct, b.margin_pct)
          \/ /\ ~RatLess(b.margin_pct, a.margin_pct)
             /\ a.product_id < b.product_id

\* line 300: sort_values(["margin_pct", "revenue"]) is a lexsort: ascending by
\* margin_pct, then ascending by revenue, rows that tie on both in groupby
\* order (ascending product_id).
LowSortsBefore(a, b) ==
    \/ RatLess(a.margin_pct, b.margin_pct)
    \/ /\ ~RatLess(b.margin_pct, a.margin_pct)
       /\ \/ a.revenue < b.revenue
          \/ /\ a.revenue = b.revenue
             /\ a.product_id < b.product_id

SkuByMargin(tx) ==
    LET S == SkuMargins(tx)
        pos(a) == 1 + Cardinality({b \in S : LowSortsBefore(b, a)})
    IN  [k \in 1..Cardinality(S) |-> CHOOSE a \in S : pos(a) = k]

HeadRows == 5

\* line 300: .head(5)
LowMargin(tx) ==
    LET sorted == SkuByMargin(tx)
    IN  SubSeq(sorted, 1, Min(HeadRows, Len(sorted)))

\* cash_eaters, lines 283-360, on a dataset whose four tables are set
CashEatersCall ==
    /\ ~get_current_data_raises
    /\ LET tx == get_processed_data(current.tx, current.pm)
       IN  \E ce \in DrainRankings(DrainFrame(tx, current.rf, current.po)),
              mode \in AiOutcomes(ai_available) :
              cash_out' = AiStep([op |-> "cash_eaters", ce |-> ce,
                                  low |-> LowMargin(tx)], mode)
    /\ UNCHANGED <<life_vars, plan_vars, sess_read, vs_call>>

\* generate_sample_data.py lines 35-36: tax = round(net * 0.1, 2) and
\* line_total = net + tax
Tax(r) == (NetSales(r) + 5) \div 10
LineTotal(r) == NetSales(r) + Tax(r)

RECURSIVE SumLineTotal(_)
SumLineTotal(s) == IF s = <<>> THEN 0 ELSE LineTotal(Head(s)) + SumLineTotal(Tail(s))

\* line 497: tx['transaction_id'].nunique(); every line of a table of the
\* model is a transaction of its own
TransactionCount(tx) == Len(tx)

\* line 498: total_revenue / total_transactions if total_transactions > 0 else 0
AvgTicket(total_revenue, total_transactions) ==
    IF total_transactions > 0
    THEN [num |-> total_revenue, den |-> total_transactions]
    ELSE [num |-> 0, den |-> 1]

\* line 501: (total_refunds / total_revenue * 100) if total_revenue > 0 else 0
RefundRate(total_refunds, total_revenue) ==
    IF total_revenue > 0
    THEN [num |-> total_refunds * 100, den |-> total_revenue]
    ELSE [num |-> 0, den |-> 1]

\* analyze_executive_summary, lines 485-542: the key metrics are computed when
\* the AI assistant is available; every exception ends in the error text of
\* line 542.
AnalyzeExecutiveSummaryCall ==
    /\ ~get_current_data_raises
    /\ \E mode \in AiOutcomes(ai_available) :
          LET tx == get_processed_data(current.tx, current.pm)
              total_revenue == SumLineTotal(tx)
          IN  cash_out' =
                 IF mode = "unavailable"
                 THEN [op |-> "analyze_executive_summary", ai |-> mode]
                 ELSE [op |-> "analyze_executive_summary", ai |-> mode,
                       total_revenue |-> total_revenue,
                       total_transactions |-> TransactionCount(tx),
                       avg_ticket |-> AvgTicket(total_revenue, TransactionCount(tx)),
                       refund_rate |-> RefundRate(SumRefundAmount(current.rf.rows),
                                                  total_revenue)]
    /\ UNCHANGED <<life_vars, plan_vars, sess_read, vs_call>>

\* executive_snapshot, lines 545-583: the no-data text only when
\* get_processed_data raises ValueError (a table is None); otherwise the
\* snapshot list, whose figures are sums over the rows (0 over no rows).
ExecutiveSnapshotCall ==
    /\ cash_out' =
          IF get_current_data_raises
          THEN [op |-> "executive_snapshot", html |-> "no_data"]
          ELSE LET tx == get_processed_data(current.tx, current.pm)
               IN  [op |-> "executive_snapshot", html |-> "snapshot",
                    transactions |-> TransactionCount(tx),
                    items_sold |-> SumQuantity(tx),
                    discounts |-> SumDiscount(tx),
                    processor_fees |-> SumProcessorFees(current.po.rows),
                    refunds_processed |-> SumRefundAmount(current.rf.rows)]
    /\ UNCHANGED <<life_vars, plan_vars, sess_read, vs_call>>

\* A dataset is loaded; cash_eaters is called on it.
InitCash ==
    /\ app = "app"
    /\ ai_available = FALSE
    /\ now = 0
    /\ cleanup = NoCleanup
    /\ session_data = [s \in SessionIds |-> NoSession]
    /\ uploads = 1
    /\ up_pc = "idle"
    /\ up_dfs = NoFiles
    /\ up_sid = "s1"
    /\ up_result = "ok"
    /\ an_read = NoRead
    /\ \E txrows \in CashRowsets, pmrows \in CashCatalogs,
          rfrows \in RefundRowsets, porows \in PayoutRowsets :
          current = [tx |-> Table("tx", 1, txrows), rf |-> Table("rf", 1, rfrows),
                     po |-> Table("po", 1, porows), pm |-> Table("pm", 1, pmrows)]
    /\ rp_pc = "idle"
    /\ budget = 0
    /\ sku_rank = <<>>
    /\ idx = 1
    /\ remaining = 0
    /\ plan = <<>>
    /\ calls = 0
    /\ returned = <<>>
    /\ cash_out = NoCashOut
    /\ sess_read = NoSessRead
    /\ vs_call = NoCall

NextCash ==
    \/ CashEatersCall
    \/ ExecutiveSnapshotCall

SpecCash == InitCash /\ [][NextCash]_vars

-----------------------------------------------------------------------------
(* Properties of cash_eaters, checked under SpecCash *)

\* C11: the drain ranking has exactly three entries (discounts, refunds,
\* processor fees), each with the sum of its column over the dataset, in
\* non-increasing order of amount, and entries with equal amounts keep the
\* order discounts, refunds, processor fees.
C11_DrainRanking ==
    cash_out.op = "cash_eaters" =>
       LET ce == cash_out.ce
           order == [discounts |-> 1, refunds |-> 2, processor_fees |-> 3]
       IN  /\ Len(ce) = 3
           /\ {ce[i].category : i \in 1..3} = {"discounts", "refunds", "processor_fees"}
           /\ \A i \in 1..3 :
                 ce[i].amount =
                    CASE ce[i].category = "discounts" -> SumDiscount(current.tx.rows)
                      [] ce[i].category = "refunds" -> SumRefundAmount(current.rf.rows)
                      [] OTHER -> SumProcessorFees(current.po.rows)
           /\ \A i \in 1..2 : ce[i].amount >= ce[i + 1].amount
           /\ \A i \in 1..2 :
                 ce[i].amount = ce[i + 1].amount
                    => order[ce[i].category] < order[ce[i + 1].category]

\* the SKUs of the loaded transactions, with the figures of the claim
ClaimedSkus == SkuMargins(get_processed_data(current.tx, current.pm))

\* "a is not after b in ascending order of (margin_pct, revenue)"
ClaimedNotAfter(a, b) ==
    \/ RatLess(a.margin_pct, b.margin_pct)
    \/ /\ ~RatLess(b.margin_pct, a.margin_pct)
       /\ a.revenue <= b.revenue

\* C12: the low-margin list has min(5, number of SKUs) entries, in ascending
\* order of (margin_pct, revenue), and no SKU left out of the list is smaller
\* in that order than a SKU of the list.
C12_LowMarginList ==
    cash_out.op = "cash_eaters" =>
       LET low == cash_out.low
           listed == {low[i] : i \in DOMAIN low}
       IN  /\ Len(low) = Min(5, Cardinality(SkuKeys(current.tx.rows)))
           /\ Cardinality(listed) = Len(low)
           /\ listed \subseteq ClaimedSkus
           /\ \A i, j \in DOMAIN low : i < j => ClaimedNotAfter(low[i], low[j])
           /\ \A out \in ClaimedSkus \ listed :
                 \A in \in listed : ClaimedNotAfter(in, out)

\* C12 witness: six SKUs, five of them listed, and the SKU left out has a
\* margin_pct that is also in the list, with a larger revenue.
C12_Witness ==
    /\ cash_out.op = "cash_eaters"
    /\ Cardinality(ClaimedSkus) = 6
    /\ Len(cash_out.low) = 5
    /\ \E out \in ClaimedSkus \ {cash_out.low[i] : i \in 1..5} :
          /\ out.margin_pct = cash_out.low[5].margin_pct
          /\ out.revenue > cash_out.low[5].revenue

\* position of a SKU in the low-margin list (0: not in the list)
LowPos(sku) ==
    IF \E i \in DOMAIN cash_out.low : cash_out.low[i] = sku
    THEN CHOOSE i \in DOMAIN cash_out.low : cash_out.low[i] = sku
    ELSE 0

\* C13: a product with revenue = 0 is never ranked ahead of a product with
\* revenue > 0 whose margin_pct is >= 0: it is neither before it in the
\* low-margin list nor in the list while the other is left out.
C13_EmptyProductNotAhead ==
    cash_out.op = "cash_eaters" =>
       \A a, b \in ClaimedSkus :
          (a.revenue = 0 /\ b.revenue > 0 /\ b.margin_pct.num >= 0 /\ LowPos(a) > 0)
             => (LowPos(b) > 0 /\ LowPos(b) < LowPos(a))

\* C14: for every SKU of the low-margin list, margin_pct is a defined finite
\* number, equal to gross_profit / revenue when revenue > 0 and to 0 when
\* revenue <= 0, also for a SKU without a catalog match (whose gross profit
\* sums to 0).
C14_MarginPctDefined ==
    cash_out.op = "cash_eaters" =>
       \A i \in DOMAIN cash_out.low :
          LET r == cash_out.low[i]
              m == r.margin_pct
          IN  /\ m.den > 0
              /\ r.revenue > 0 => m.num * r.revenue = r.gp * m.den
              /\ r.revenue <= 0 => m.num = 0
              /\ r.product_id \notin DOMAIN current.pm.rows => r.gp = 0

\* C14 witness: the list holds a SKU without a catalog match and with
\* revenue > 0, a SKU with revenue = 0, a SKU with revenue < 0 and a SKU with
\* a negative margin.
C14_Witness ==
    /\ cash_out.op = "cash_eaters"
    /\ \E i, j, k, l \in DOMAIN cash_out.low :
          /\ cash_out.low[i].product_id \notin DOMAIN current.pm.rows
          /\ cash_out.low[i].revenue > 0
          /\ cash_out.low[j].revenue = 0
          /\ cash_out.low[k].revenue < 0
          /\ cash_out.low[l].margin_pct.num < 0

-----------------------------------------------------------------------------
(* Properties of the ratios, checked under SpecPilot *)

\* C15: no ratio of an analysis operation raises or is undefined when its
\* denominator is zero, it evaluates to 0: the budget utilisation of
\* SessionAnalyzer.reorder_plan for budget = 0, and the average ticket and
\* the refund rate of analyze_executive_summary for no transaction and for
\* no revenue.
C15_ZeroDenominators ==
    /\ (sess_read.op = "reorder_plan" /\ sess_read.utilisation.reached
           /\ sess_read.budget = 0)
          => /\ ~sess_read.utilisation.raised
             /\ sess_read.utilisation.den > 0
             /\ sess_read.utilisation.num = 0
    /\ (cash_out.op = "analyze_executive_summary" /\ cash_out.ai # "unavailable")
          => /\ cash_out.avg_ticket.den > 0
             /\ cash_out.refund_rate.den > 0
             /\ cash_out.total_transactions = 0 => cash_out.avg_ticket.num = 0
             /\ cash_out.total_revenue = 0 => cash_out.refund_rate.num = 0

\* C16: when the dataset is set but the transactions table has zero rows,
\* executive_snapshot returns the no-data marker and no snapshot of figures.
C16_EmptyTransactionsNoData ==
    (cash_out.op = "executive_snapshot" /\ current.tx # NoTable
        /\ current.tx.rows = <<>>)
       => cash_out.html = "no_data"

-----------------------------------------------------------------------------
(* utils.py: validate_schema_or_raise called on a table *)

MaxDropped == 3     \* required columns a table under validation lacks

\* the columns of a table handed to validate_schema_or_raise: the required
\* columns but for at most MaxDropped of them, with or without a column the
\* schema does not ask for
ColumnChoices(kind) ==
    LET req == SeqToSet(DEFAULT_SCHEMAS[kind])
    IN  {(req \ dropped) \cup extra :
            dropped \in {d \in SUBSET req : Cardinality(d) <= MaxDropped},
            extra \in {{}, {"notes"}}}

\* lines 41-44 called on dfs[kind]: the call returns or raises; it assigns
\* nothing but its local name missing.
ValidateCall ==
    /\ vs_call = NoCall
    /\ \E kind \in KindSet :
          /\ up_dfs[kind] # NoTable
          /\ LET res == validate_schema_or_raise(kind, up_dfs[kind],
                                                 DEFAULT_SCHEMAS[kind])
             IN  vs_call' = [kind |-> kind, raised |-> res.raised,
                             error_kind |-> res.kind, missing |-> res.missing]
    /\ UNCHANGED <<life_vars, plan_vars, cash_out, sess_read>>

\* One table read from an upload, with the dataset set or not yet set.
InitValidate ==
    /\ app = "app"
    /\ ai_available = FALSE
    /\ now = 0
    /\ cleanup = NoCleanup
    /\ session_data = [s \in SessionIds |-> NoSession]
    /\ uploads = 1
    /\ up_pc = "idle"
    /\ \E kind \in KindSet : \E cols \in ColumnChoices(kind) :
          up_dfs = [NoFiles EXCEPT
                      ![kind] = [Table(kind, 1, SampleRows(kind))
                                    EXCEPT !.columns = cols]]
    /\ up_sid = "s1"
    /\ up_result = "ok"
    /\ an_read = NoRead
    /\ current \in {NoFiles,
                    [k \in KindSet |-> Table(k, 1, SampleRows(k))]}
    /\ rp_pc = "idle"
    /\ budget = 0
    /\ sku_rank = <<>>
    /\ idx = 1
    /\ remaining = 0
    /\ plan = <<>>
    /\ calls = 0
    /\ returned = <<>>
    /\ cash_out = NoCashOut
    /\ sess_read = NoSessRead
    /\ vs_call = NoCall

NextValidate ==
    \/ ValidateCall

SpecValidate == InitValidate /\ [][NextValidate]_vars

-----------------------------------------------------------------------------
(* Properties of validate_schema_or_raise, checked under SpecValidate *)

PositionIn(seq, c) == CHOOSE i \in DOMAIN seq : seq[i] = c

\* C17: validate_schema_or_raise succeeds exactly when every required column
\* of the kind is among the table's columns; otherwise it raises an error that
\* names the kind and exactly the absent required columns, in required-column
\* order; the call changes neither the table nor the dataset.
C17_ValidateSchema ==
    /\ [](vs_call # NoCall =>
            LET req == DEFAULT_SCHEMAS[vs_call.kind]
                cols == up_dfs[vs_call.kind].columns
                miss == vs_call.missing
            IN  /\ ~vs_call.raised <=> SeqToSet(req) \subseteq cols
                /\ vs_call.raised =>
                      /\ vs_call.error_kind = vs_call.kind
                      /\ SeqToSet(miss) = SeqToSet(req) \ cols
                      /\ \A i, j \in DOMAIN miss :
                            i < j => PositionIn(req, miss[i]) < PositionIn(req, miss[j]))
    /\ [][vs_call' # vs_call => UNCHANGED <<up_dfs, current, session_data>>]_vars

C17_Witness ==
    /\ vs_call # NoCall
    /\ vs_call.raised
    /\ Len(vs_call.missing) >= 2
    /\ "notes" \in up_dfs[vs_call.kind].columns
    /\ current # NoFiles

-----------------------------------------------------------------------------
(* Properties of the sessions, checked under SpecPilot *)

\* the uploads whose tables a session holds
UploadsHeld(sid) ==
    IF SessionExists(sid)
    THEN {session_data[sid][k].upload : k \in {q \in KindSet : session_data[sid][q] # NoTable}}
    ELSE {}

\* C18: with several sessions alive, an operation on one session (set_data,
\* an analysis, clear_session) never changes the tables of another session,
\* and an analysis on a session is computed only from the tables that were set
\* on that session.
C18_SessionIsolation ==
    /\ [](\A s, t \in SessionIds : s # t => UploadsHeld(s) \cap UploadsHeld(t) = {})
    /\ [][/\ \A s \in SessionIds :
               session_data'[s] # session_data[s] =>
                  /\ \A t \in SessionIds \ {s} : session_data'[t] = session_data[t]
                  /\ (SessionExists(s) /\ session_data'[s] # ClearedSession) =>
                        /\ s = up_sid
                        /\ up_pc \in KindSet
                        /\ session_data'[s] =
                              [session_data[s] EXCEPT ![up_pc] = up_dfs[up_pc]]
          /\ sess_read' # sess_read =>
                /\ session_data' = session_data
                /\ \A k \in KindSet :
                      sess_read'[k] # 0 =>
                         /\ SessionExists(sess_read'.sid)
                         /\ session_data[sess_read'.sid][k] # NoTable
                         /\ sess_read'[k] = session_data[sess_read'.sid][k].upload
                         /\ \A t \in SessionIds \ {sess_read'.sid} :
                               sess_read'[k] \notin UploadsHeld(t)]_vars

C18_Witness ==
    /\ sess_read.op # "none"
    /\ sess_read.sid = "s2"
    /\ sess_read.outcome = "ok"
    /\ SessionExists("s1") /\ SessionExists("s2")
    /\ UploadsHeld("s1") # {}
    /\ sess_read.tx \in UploadsHeld("s2")

\* C19: an analysis on a session that runs while SessionAnalyzer.set_data
\* stores four new tables on the same session never obtains a bundle mixing
\* new tables with older ones: get_session_data returns the four new tables
\* or none of them.
C19_NoMixedBundle ==
    (sess_read.op # "none" /\ sess_read.during # 0)
       => \/ \A k \in KindSet : sess_read[k] = sess_read.during
          \/ \A k \in KindSet : sess_read[k] # sess_read.during

-----------------------------------------------------------------------------
(* analysis.py: free_up_cash, and the operations with their AI step *)

\* line 440: groupby(["product_id", "product_name"]).agg(qty=("quantity", "sum"))
\* and line 441, qty_per_day = qty / days
SlowRow(tx, pid) ==
    LET qty == SumQuantity(SelectSeq(tx, LAMBDA r : r.product_id = pid))
    IN  [product_id |-> pid, qty |-> qty,
         qty_per_day |-> [num |-> qty, den |-> DaySpan(tx)]]

SlowDaily(tx) == {SlowRow(tx, pid) : pid \in SkuKeys(tx)}

\* Mutant: the fifth of the SKUs rounded up.
SlowCountCeil(n) == Max(1, (2 * n + 9) \div 10)

\* line 442: max(1, int(0.2 * len(sku_daily)))
SlowCount(n) == Max(1, (2 * n) \div 10)

\* line 442: sort_values("qty_per_day").head(k).  One sort column: the sort is
\* numpy's default, which keeps no order among equal keys, so every ascending
\* order of the rows is a possible result.
SlowHeads(S, k) ==
    LET m == Min(k, Cardinality(S))
    IN  {h \in [1..m -> S] :
            /\ \A i, j \in 1..m : i < j =>
                  /\ h[i] # h[j]
                  /\ ~RatLess(h[j].qty_per_day, h[i].qty_per_day)
            /\ \A r \in S \ {h[i] : i \in 1..m} :
                  \A i \in 1..m : ~RatLess(r.qty_per_day, h[i].qty_per_day)}

\* line 444: twice the median of the unit prices of a product's lines
MedianPriceTimes2(tx, pid) ==
    LET g == SelectSeq(tx, LAMBDA r : r.product_id = pid)
        n == Len(g)
        rank(i) == Cardinality({j \in 1..n :
                       \/ g[j].unit_price < g[i].unit_price
                       \/ g[j].unit_price = g[i].unit_price /\ j < i}) + 1
        at(k) == g[CHOOSE i \in 1..n : rank(i) = k].unit_price
    IN  IF n % 2 = 1 THEN 2 * at((n + 1) \div 2)
        ELSE at(n \div 2) + at(n \div 2 + 1)

\* Series.round(0) of num / den >= 0: to the nearest integer, a half to the
\* even neighbour
RoundHalfEven(num, den) ==
    LET q == num \div den
        r == num % den
    IN  IF 2 * r < den THEN q
        ELSE IF 2 * r > den THEN q + 1
        ELSE IF q % 2 = 0 THEN q ELSE q + 1

\* Mutant: the extra units rounded down.
ExtraUnitsFloor(row) == (row.qty_per_day.num * 7) \div (row.qty_per_day.den * 2)

\* line 448: (qty_per_day * 7 * (assumed_lift - 1)).round(0), assumed_lift 1.5
ExtraUnits(row) == RoundHalfEven(row.qty_per_day.num * 7, row.qty_per_day.den * 2)

\* line 449: (price * (1 - discount_rate)).round(2), discount_rate 0.20; in
\* cents, and price * 0.8 is never half a cent away from a cent
DiscountedPrice(price_times_2) == (price_times_2 * 4 + 5) \div 10

\* lines 444-450: the columns added to a row of slow
SlowMoverRow(tx, row) ==
    LET units == ExtraUnits(row)
        price == DiscountedPrice(MedianPriceTimes2(tx, row.product_id))
    IN  [product_id |-> row.product_id, qty |-> row.qty,
         qty_per_day |-> row.qty_per_day, extra_units |-> units,
         discounted_price |-> price, extra_cash_inflow |-> units * price]

\* the possible frames slow of lines 442-450
SlowMovers(tx) ==
    LET S == SlowDaily(tx)
    IN  {[i \in DOMAIN h |-> SlowMoverRow(tx, h[i])] :
            h \in SlowHeads(S, SlowCount(Cardinality(S)))}

\* line 452: float(slow["extra_cash_inflow"].sum())
RECURSIVE SumExtraCash(_)
SumExtraCash(s) ==
    IF s = <<>> THEN 0 ELSE Head(s).extra_cash_inflow + SumExtraCash(Tail(s))

\* free_up_cash, lines 431-478.  Over no transaction line, line 439 takes
\* .days of a float NaN and raises AttributeError, which nothing catches.
FreeUpCashCall ==
    /\ ~get_current_data_raises
    /\ LET tx == get_processed_data(current.tx, current.pm)
       IN  IF tx = <<>>
           THEN cash_out' = [op |-> "free_up_cash", error |-> TRUE,
                             ai_insights |-> "none"]
           ELSE \E slow \in SlowMovers(tx), mode \in AiOutcomes(ai_available) :
                   cash_out' = AiStep([op |-> "free_up_cash", slow |-> slow,
                                       total |-> SumExtraCash(slow)], mode)
    /\ UNCHANGED <<life_vars, plan_vars, sess_read, vs_call>>

\* the tables of the datasets the operations are called on: one line per
\* product, which sold something at no discount
AiRowsets ==
    {s \in [1..2 -> Lines] :
        \A i \in 1..2 : /\ s[i].product_id = i
                        /\ s[i].quantity > 0
                        /\ s[i].discount = 0}

\* the catalogs: product 2 listed at cogs 1, product 1 listed or not
AiCatalogs == {p \in PmRowsets : 2 \in DOMAIN p /\ p[2] = 1}

\* A dataset is loaded in a process with or without an API key; the
\* operations are called on it.
InitAi ==
    /\ app = "app"
    /\ ai_available \in BOOLEAN
    /\ now = 0
    /\ cleanup = NoCleanup
    /\ session_data = [s \in SessionIds |-> NoSession]
    /\ uploads = 1
    /\ up_pc = "idle"
    /\ up_dfs = NoFiles
    /\ up_sid = "s1"
    /\ up_result = "ok"
    /\ an_read = NoRead
    /\ \E txrows \in AiRowsets, pmrows \in AiCatalogs :
          current = [tx |-> Table("tx", 1, txrows), rf |-> Table("rf", 1, <<>>),
                     po |-> Table("po", 1, <<>>), pm |-> Table("pm", 1, pmrows)]
    /\ budget = MaxBudget
    /\ rp_pc = "idle"
    /\ sku_rank = <<>>
    /\ idx = 1
    /\ remaining = 0
    /\ plan = <<>>
    /\ calls = 0
    /\ returned = <<>>
    /\ cash_out = NoCashOut
    /\ sess_read = NoSessRead
    /\ vs_call = NoCall

NextAi ==
    \/ CashEatersCall
    \/ FreeUpCashCall
    \/ AnalyzeExecutiveSummaryCall
    \/ ReorderStart
    \/ ReorderSkip
    \/ ReorderVisit
    \/ ReorderExhausted
    \/ ReorderReturn

SpecAi == InitAi /\ [][NextAi]_vars

-----------------------------------------------------------------------------
(* Properties of the AI step, checked under SpecAi *)

\* C20: the numeric outputs of cash_eaters, reorder_plan and free_up_cash are
\* the same whether the AI assistant is unavailable, answers or raises: each
\* call returns the figures computed from the dataset, and a failure of the AI
\* step never turns the call into an error nor drops a numeric result.
C20_NumbersIndependentOfAi ==
    [][cash_out' # cash_out =>
         LET tx == get_processed_data(current.tx, current.pm)
             out == cash_out'
         IN  /\ out.op = "cash_eaters" =>
                   /\ ~out.error
                   /\ out.ce \in DrainRankings(DrainFrame(tx, current.rf, current.po))
                   /\ out.low = LowMargin(tx)
             /\ out.op = "reorder_plan" =>
                   /\ ~out.error
                   /\ out.budget = budget
                   /\ out.plan = plan
                   /\ out.remaining = remaining
             /\ out.op = "free_up_cash" =>
                   /\ out.error <=> tx = <<>>
                   /\ ~out.error =>
                         /\ out.slow \in SlowMovers(tx)
                         /\ out.total = SumExtraCash(out.slow)]_vars

C20_Witness ==
    /\ cash_out.op = "free_up_cash"
    /\ cash_out.ai_insights = "error_text"
    /\ ~cash_out.error
    /\ cash_out.total > 0
    /\ calls > 0

-----------------------------------------------------------------------------
(* Properties of the boundary of reorder_plan, checked under SpecPlan *)

\* C23: reorder_plan rejects inconsistent inputs at the boundary: a call with
\* budget <= 0 returns a structured error and never a plan with a remaining
\* budget.
C23_NonPositiveBudgetRejected ==
    \A i \in DOMAIN returned : returned[i].budget > 0

\* the units the plan holds for a product (0: no plan line)
UnitsBought(p, pid) ==
    IF \E i \in DOMAIN p : p[i].product_id = pid
    THEN (CHOOSE l \in {p[i] : i \in DOMAIN p} : l.product_id = pid).suggested_qty
    ELSE 0

\* "its full target quantity": a five-day cover, one unit at least
ClaimedTarget(row) == Max(1, CeilTimes5(row.qty_per_day))

-----------------------------------------------------------------------------
(* Properties of get_processed_data, checked under SpecCash *)

RECURSIVE SumTax(_)
SumTax(s) == IF s = <<>> THEN 0 ELSE Tax(Head(s)) + SumTax(Tail(s))

\* C22: get_processed_data performs a left join (product_id is unique in the
\* product table): the enriched view has exactly one row per transaction
\* line, in the same order and with the line's own columns; a line whose
\* product_id has no match keeps an undefined cogs and a matched line gets
\* the cogs of its product; sum(line_total) over the enriched view equals
\* sum(net_sales) + sum(tax) of the input lines.
C22_LeftJoin ==
    cash_out.op # "none" =>
       LET rows == current.tx.rows
           cat == current.pm.rows
           view == get_processed_data(current.tx, current.pm)
       IN  /\ Len(view) = Len(rows)
           /\ \A i \in DOMAIN rows :
                 /\ view[i].product_id = rows[i].product_id
                 /\ view[i].quantity = rows[i].quantity
                 /\ view[i].unit_price = rows[i].unit_price
                 /\ view[i].discount = rows[i].discount
                 /\ view[i].day = rows[i].day
                 /\ view[i].matched <=> rows[i].product_id \in DOMAIN cat
                 /\ view[i].matched => view[i].cogs = cat[rows[i].product_id]
           /\ SumLineTotal(view) = SumNetSales(rows) + SumTax(rows)

C22_Witness ==
    /\ cash_out.op = "cash_eaters"
    /\ Len(current.tx.rows) >= 3
    /\ \E i, j \in DOMAIN current.tx.rows :
          /\ current.tx.rows[i].product_id \notin DOMAIN current.pm.rows
          /\ current.tx.rows[j].product_id \in DOMAIN current.pm.rows
          /\ current.tx.rows[i].quantity > 0

-----------------------------------------------------------------------------
(* Properties of the lines with no catalog match, checked under SpecAi *)

\* the products sold that the catalog does not list
UnmatchedSkus ==
    {current.tx.rows[i].product_id : i \in DOMAIN current.tx.rows}
       \ DOMAIN current.pm.rows

RankedIn(table, pid) == \E i \in DOMAIN table : table[i].product_id = pid

\* C21: a SKU whose lines have no catalog match is handled the same way by
\* every analysis: the low-margin ranking of cash_eaters, the ranking of
\* reorder_plan and the slow movers of free_up_cash all leave it out, or all
\* keep it.
C21_UnmatchedHandledAlike ==
    \A pid \in UnmatchedSkus :
       /\ (cash_out.op = "cash_eaters" /\ InCall) =>
             (RankedIn(cash_out.low, pid) <=> RankedIn(sku_rank, pid))
       /\ (cash_out.op = "free_up_cash" /\ InCall) =>
             (RankedIn(cash_out.slow, pid) => RankedIn(sku_rank, pid))

-----------------------------------------------------------------------------
(* analysis.py: free_up_cash on a dataset of many SKUs *)

MaxSlowSkus == 10   \* products sold in a transactions table of SpecSlow

SlowQuantities == {1, 2}

\* The transactions of SpecSlow: one line per product 1..n, sold once or
\* twice on the same day, three products at most sold once.
SlowRowsets ==
    UNION {{[i \in 1..n |-> CashLine(i, <<q[i], 0>>)] :
               q \in {f \in [1..n -> SlowQuantities] :
                         Cardinality({i \in 1..n : f[i] = 1}) <= 3}} :
           n \in 1..MaxSlowSkus}

\* A dataset is loaded; free_up_cash is called on it.
InitSlow ==
    /\ app = "app"
    /\ ai_available = FALSE
    /\ now = 0
    /\ cleanup = NoCleanup
    /\ session_data = [s \in SessionIds |-> NoSession]
    /\ uploads = 1
    /\ up_pc = "idle"
    /\ up_dfs = NoFiles
    /\ up_sid = "s1"
    /\ up_result = "ok"
    /\ an_read = NoRead
    /\ \E txrows \in SlowRowsets :
          current = [tx |-> Table("tx", 1, txrows), rf |-> Table("rf", 1, <<>>),
                     po |-> Table("po", 1, <<>>),
                     pm |-> Table("pm", 1, [i \in 1..MaxSlowSkus |-> 1])]
    /\ rp_pc = "idle"
    /\ budget = 0
    /\ sku_rank = <<>>
    /\ idx = 1
    /\ remaining = 0
    /\ plan = <<>>
    /\ calls = 0
    /\ returned = <<>>
    /\ cash_out = NoCashOut
    /\ sess_read = NoSessRead
    /\ vs_call = NoCall

NextSlow ==
    \/ FreeUpCashCall

SpecSlow == InitSlow /\ [][NextSlow]_vars

-----------------------------------------------------------------------------
(* Properties of free_up_cash, checked under SpecSlow and SpecAi *)

\* the units of a product sold over the period
ClaimedQty(pid) ==
    SumQuantity(SelectSeq(current.tx.rows, LAMBDA r : r.product_id = pid))

\* "the bottom 20% (at least 1 SKU)"
ClaimedSlowCount(n) == IF n \div 5 >= 1 THEN n \div 5 ELSE 1

\* C24: for a dataset with n >= 1 SKUs, free_up_cash selects exactly
\* max(1, floor(0.2 x n)) slow movers, all of them different SKUs of the
\* dataset, and every selected SKU has a qty_per_day not greater than that of
\* any SKU not selected.
C24_SlowMoversSelected ==
    (cash_out.op = "free_up_cash" /\ ~cash_out.error) =>
       LET skus == {current.tx.rows[i].product_id : i \in DOMAIN current.tx.rows}
           slow == cash_out.slow
           chosen == {slow[i].product_id : i \in DOMAIN slow}
           days == DaySpan(current.tx.rows)
       IN  /\ Len(slow) = ClaimedSlowCount(Cardinality(skus))
           /\ Cardinality(chosen) = Len(slow)
           /\ chosen \subseteq skus
           /\ \A i \in DOMAIN slow :
                 /\ slow[i].qty_per_day.num * days
                       = ClaimedQty(slow[i].product_id) * slow[i].qty_per_day.den
                 /\ \A u \in skus \ chosen : ClaimedQty(slow[i].product_id) <= ClaimedQty(u)

C24_Witness ==
    /\ cash_out.op = "free_up_cash"
    /\ ~cash_out.error
    /\ Len(cash_out.slow) = 2
    /\ ClaimedQty(cash_out.slow[1].product_id) < ClaimedQty(cash_out.slow[2].product_id)
    /\ \E i \in DOMAIN current.tx.rows :
          /\ current.tx.rows[i].product_id \notin
                {cash_out.slow[1].product_id, cash_out.slow[2].product_id}
          /\ ClaimedQty(current.tx.rows[i].product_id)
                = ClaimedQty(cash_out.slow[2].product_id)

Dist(a, b) == IF a >= b THEN a - b ELSE b - a

\* round(num / den) for num >= 0: the nearest integer, the even one of two
\* that are equally near
ClaimedRound(num, den) ==
    CHOOSE n \in 0..(num + 1) :
       \/ 2 * Dist(n * den, num) < den
       \/ 2 * Dist(n * den, num) = den /\ n % 2 = 0

\* m2 is twice a median of the unit prices of a product's lines: no more than
\* half of the lines are below it, no more than half above, and it is the
\* sum of two of the prices
IsMedianTimes2(m2, pid) ==
    LET g == SelectSeq(current.tx.rows, LAMBDA r : r.product_id = pid)
    IN  /\ \E i, j \in DOMAIN g : m2 = g[i].unit_price + g[j].unit_price
        /\ 2 * Cardinality({i \in DOMAIN g : 2 * g[i].unit_price < m2}) <= Len(g)
        /\ 2 * Cardinality({i \in DOMAIN g : 2 * g[i].unit_price > m2}) <= Len(g)

TablesNotSet(sid) == {k \in KindSet : session_data[sid][k] = NoTable}

\* C28: an analysis operation of SessionAnalyzer computes a result only when
\* all four tables of its session are set; otherwise it returns, without
\* raising, an error value that names exactly the tables not yet set, or
\* "Session not found" when the session id does not exist.
C28_ErrorValueNamesMissingTables ==
    [][sess_read' # sess_read =>
          LET r == sess_read'
          IN  /\ (r.outcome = "session_not_found") <=> ~SessionExists(r.sid)
              /\ (r.outcome = "missing_data") <=>
                    (SessionExists(r.sid) /\ TablesNotSet(r.sid) # {})
              /\ (r.outcome = "missing_data") => r.missing = TablesNotSet(r.sid)
              /\ (r.outcome \in {"ok", "raised"}) <=>
                    (SessionExists(r.sid) /\ TablesNotSet(r.sid) = {})]_vars

C28_Witness ==
    /\ sess_read.op = "cash_eaters"
    /\ sess_read.outcome = "missing_data"
    /\ sess_read.missing = {"rf", "po", "pm"}
    /\ sess_read.tx # 0
    /\ SessionExists(sess_read.sid)
    /\ session_data[sess_read.sid].tx # NoTable

\* C29: whenever handle_upload reports a successful load for a session id,
\* that session then holds exactly the uploaded tables (so that a following
\* handle_analysis on the same id computes from them), whatever create_session,
\* clear_session and upload operations came before on that id.
C29_ReportedUploadIsHeld ==
    [][(up_result' = "ok" /\ up_result # "ok") =>
          /\ session_data'[up_sid].state = "live"
          /\ \A k \in KindSet :
                up_dfs[k] # NoTable => session_data'[up_sid][k] = up_dfs[k]]_vars

\* C26: all parts of the result of one cash_eaters, reorder_plan or
\* free_up_cash call come from one dataset version: the executive snapshot it
\* returns is computed from the same four tables as the ranking, plan or
\* slow-mover table returned with it, also when set_data runs during the call.
C26_OneDatasetVersion ==
    (an_read.stage = "done" /\ an_read.snap.outcome = "ok")
       => \A k \in KindSet : an_read.snap[k] = an_read[k]

\* C30: cleanup_old_sessions removes exactly the sessions whose last access
\* is more than max_age_hours before the call, and returns their number; a
\* session that was created, read or written within the last max_age_hours is
\* never removed by it, also when get_session_data and set_session_data of
\* request handlers run between the call and its deletions.
C30_CleanupRemovesOldSessionsOnly ==
    [][(cleanup.pc = "lock" /\ cleanup'.pc = "idle") =>
          LET removed == {sid \in SessionIds :
                             SessionExists(sid) /\ session_data'[sid].state # "live"}
          IN  /\ removed = {sid \in SessionIds :
                               /\ SessionExists(sid)
                               /\ cleanup.called_at - session_data[sid].last_accessed
                                     > CLEANUP_HOURS}
              /\ cleanup'.cleaned = Cardinality(removed)
              /\ \A sid \in removed :
                    now - session_data[sid].last_accessed > CLEANUP_HOURS
              /\ \A sid \in SessionIds \ removed :
                    session_data'[sid] = session_data[sid]]_vars

C30_Witness ==
    /\ cleanup.pc = "idle"
    /\ cleanup.cleaned = 1
    /\ session_data["s1"] = ClearedSession
    /\ SessionExists("s2")
    /\ session_data["s2"].tx # NoTable
    /\ now - session_data["s2"].last_accessed = CLEANUP_HOURS

====
